---- MODULE Spec2Model ----
(***************************************************************************)
(* Model of scripts/trace_parser_aloha.py: the ALOHA trace parser of       *)
(* Aqua-Sim NG.                                                            *)
(*                                                                         *)
(*   parse_events           splits the trace text into event strings       *)
(*   parse_fields           turns the events into the TRACE table and the  *)
(*                          per-node NODE_INFO map (collisions, energy)    *)
(*   convert_string_to_int  decodes a destination address                  *)
(*   calc_*                 the metrics over TRACE and NODE_INFO           *)
(*                                                                         *)
(* Text is a sequence of one-character strings.  Python floats are exact   *)
(* fixed-point numbers of two limbs (see Num below).                       *)
(***************************************************************************)
EXTENDS Integers, Sequences, FiniteSets, TLC

VARIABLES
    \* parse_events
    content,      \* the text of the trace file (never changes)
    rest,         \* the part of the file the loop has not read yet
    event,        \* the local `event`
    i,            \* the local `i`: lines read so far
    EVENTS,       \* the list parse_events builds
    pcSplit,      \* "idle" | "loop" | "done"
    \* convert_string_to_int, called on its own
    addr_in,      \* the argument s
    addr_out,     \* what the call gave: a value or a raised ValueError
    pcAddr,       \* "idle" | "call" | "done"
    \* parse_fields
    TRACE,        \* the columns of the table
    NODE_INFO,    \* node id -> counters, energies, LAST_TS
    unique_id,    \* the local `unique_id`: <<>> while unbound, else <<n>>
    fault,        \* "none", or the exception that ended parse_fields
    pc,           \* "idle" | "parse" | "done" | "fault" | "reported"
    \* the metric functions, called on what parse_fields returned
    out,
    \* what an earlier call of parse_fields on the same EVENTS gave: <<>>
    \* while there was none, else <<[TRACE, NODE_INFO, fault, returned]>>
    first,
    \* the events of EVENTS the loop of parse_fields has gone through
    read,
    \* run_batch_simulation of scripts/run_aloha_and_print.py
    n_nodes_list, \* its arguments
    lambda_list,
    repeat_count,
    skip_failed,
    skip_sim,
    skip_print,
    completed,    \* the local `completed`: runs begun
    calls,        \* the calls of run_single_simulation and what they returned
    csv,          \* the rows written to output_csv after the header
    returned,     \* "none", or what run_batch_simulation returned
    pcBatch       \* "idle" | "loop" | "done"

vars == <<content, rest, event, i, EVENTS, pcSplit, addr_in, addr_out, pcAddr,
          TRACE, NODE_INFO, unique_id, fault, pc, out, first, read,
          n_nodes_list, lambda_list, repeat_count, skip_failed, skip_sim,
          skip_print, completed, calls, csv, returned, pcBatch>>

batchVars == <<n_nodes_list, lambda_list, repeat_count, skip_failed, skip_sim,
               skip_print, completed, calls, csv, returned, pcBatch>>

splitVars == <<content, rest, event, i, EVENTS, pcSplit>>
addrVars  == <<addr_in, addr_out, pcAddr>>
parseVars == <<TRACE, NODE_INFO, unique_id, fault, pc, out, first, read>>

(***************************************************************************)
(* Program constants.  Powers are in milliwatts so that they are integers. *)
(***************************************************************************)
TX_POWER == 60000
RX_POWER == 158
IDLE_POWER == 158
LINK_SPEED == 80000
PACKET_SIZE == 800
NS_PER_SECOND == 1000000000
DEFAULT_PAYLOAD == 50
NODE_PREALLOC == 300
MAX_ADDR_LEN == 4
ADDR_BASE == 255
WINDOW_SECONDS == 10

(***************************************************************************)
(* Bounds of the model.                                                    *)
(***************************************************************************)
MaxTextLen == 5      \* characters of trace text given to parse_events
MaxAddrLen == 5      \* characters of an address given to the decoder
MaxEvents == 2       \* events given to parse_fields
MaxRecords == 3      \* events of the traces given to the time metrics
MaxRepeat == 2       \* repeat_count given to run_batch_simulation

(***************************************************************************)
(* Num: exact arithmetic for the floats of the program.                    *)
(*                                                                         *)
(* One byte takes 8 / LINK_SPEED seconds on the air; that is the tick.     *)
(* A Num [hi, lo] stands for hi * NS_PER_SECOND + lo ticks, 0 <= lo <      *)
(* NS_PER_SECOND (hi may be negative).                                     *)
(*   - a timestamp of the trace is in nanoseconds; one nanosecond is       *)
(*     TicksPerNs ticks of a nanosecond, so time is kept to 1e-4 ns;       *)
(*   - size * 8 / LINK_SPEED is a number of SECONDS: numerically size      *)
(*     ticks.  Added as it is to a timestamp it is [hi |-> 0, lo |-> size] *)
(*     (AirTime); converted to nanoseconds it is [hi |-> size, lo |-> 0]   *)
(*     (AirTimeNs);                                                        *)
(*   - an energy is in tick * milliwatt (1e-16 J): (dt / 1e9) * POWER for  *)
(*     dt nanoseconds is NumScale(dt, POWER), and seconds * POWER is       *)
(*     NumScale(AirTimeNs, POWER).                                         *)
(***************************************************************************)
TicksPerNs == LINK_SPEED \div 8

Num(h, l) == [hi |-> h, lo |-> l]

Zero == Num(0, 0)

\* -NS_PER_SECOND < l < 2 * NS_PER_SECOND
NumNorm(h, l) ==
    IF l < 0 THEN Num(h - 1, l + NS_PER_SECOND)
    ELSE IF l >= NS_PER_SECOND THEN Num(h + 1, l - NS_PER_SECOND)
    ELSE Num(h, l)

NumAdd(a, b) == NumNorm(a.hi + b.hi, a.lo + b.lo)

NumSub(a, b) == NumNorm(a.hi - b.hi, a.lo - b.lo)

NumGeq(a, b) == a.hi > b.hi \/ (a.hi = b.hi /\ a.lo >= b.lo)

NumLt(a, b) == ~NumGeq(a, b)

\* a * k for 0 <= k (k <= 1000 unless a.lo = 0), limb by limb so that no
\* product leaves 32 bits
NumScale(a, k) ==
    LET million == NS_PER_SECOND \div 1000
        top     == (a.lo \div million) * k
        low     == (top % 1000) * million + (a.lo % million) * k
    IN  Num(a.hi * k + top \div 1000 + low \div NS_PER_SECOND,
            low % NS_PER_SECOND)

\* a time of s whole seconds
Seconds(s) == Num(s * TicksPerNs, 0)

\* Exact fractions [n, d], d > 0, in lowest terms: the throughput samples
\* and their running mean.
RECURSIVE GCD(_, _)
GCD(a, b) == IF b = 0 THEN a ELSE GCD(b, a % b)

Frac(n, d) ==
    LET g == GCD(IF n < 0 THEN -n ELSE n, d)
    IN  [n |-> n \div g, d |-> d \div g]

FracAdd(a, b) == Frac(a.n * b.d + b.n * a.d, a.d * b.d)

FracSub(a, b) == Frac(a.n * b.d - b.n * a.d, a.d * b.d)

\* a / k for an integer k > 0
FracDiv(a, k) == Frac(a.n, a.d * k)

\* a timestamp of ns whole nanoseconds and t further ticks
Ts(ns, t) == NumNorm(ns \div (NS_PER_SECOND \div TicksPerNs),
                     (ns % (NS_PER_SECOND \div TicksPerNs)) * TicksPerNs + t)

(***************************************************************************)
(* Text.                                                                   *)
(***************************************************************************)
NL == "\n"

Digits == {"0", "1", "2", "3", "4", "5", "6", "7", "8", "9"}

DigitVal(c) ==
    CASE c = "0" -> 0 [] c = "1" -> 1 [] c = "2" -> 2 [] c = "3" -> 3
      [] c = "4" -> 4 [] c = "5" -> 5 [] c = "6" -> 6 [] c = "7" -> 7
      [] c = "8" -> 8 [] c = "9" -> 9

\* str.isdigit()
isdigit(s) == s /= <<>> /\ \A k \in 1..Len(s) : s[k] \in Digits

\* int(s) of a string of decimal digits
RECURSIVE int(_)
int(s) ==
    IF s = <<>> THEN 0
    ELSE int(SubSeq(s, 1, Len(s) - 1)) * 10 + DigitVal(s[Len(s)])

\* all texts of at most n characters over the alphabet
Texts(alphabet, n) == UNION {[1..k -> alphabet] : k \in 0..n}

\* a call's outcome: its value, or the exception it raised
Value(v) == [fault |-> "none", value |-> v]

Raise(exc) == [fault |-> exc, value |-> 0]

(***************************************************************************)
(* parse_events                                                            *)
(***************************************************************************)
SplitChars == {"t", "r", "x", NL}

\* `for line in f`: the next line, its terminator included
RECURSIVE FirstLine(_)
FirstLine(s) ==
    IF s = <<>> THEN <<>>
    ELSE IF Head(s) = NL THEN <<NL>>
    ELSE <<Head(s)>> \o FirstLine(Tail(s))

\* line[:-1]
ChopLast(line) == SubSeq(line, 1, Len(line) - 1)

\* the test without `and (i != 0)`
StartsNewEventAlways(line, n) == line[1] = "t" \/ line[1] = "r"

\* (line[0] == "t" or line[0] == "r") and (i != 0)
StartsNewEvent(line, n) == (line[1] = "t" \/ line[1] = "r") /\ n /= 0

AfterFirstLine == SubSeq(rest, Len(FirstLine(rest)) + 1, Len(rest))

\* the loop body, first branch
parse_events_new ==
    /\ pcSplit = "loop"
    /\ rest /= <<>>
    /\ StartsNewEvent(FirstLine(rest), i)
    /\ EVENTS' = Append(EVENTS, event)
    /\ event' = ChopLast(FirstLine(rest))
    /\ i' = i + 1
    /\ rest' = AfterFirstLine
    /\ UNCHANGED <<content, pcSplit>>
    /\ UNCHANGED <<addrVars, parseVars, batchVars>>

\* the loop body, else branch
parse_events_append ==
    /\ pcSplit = "loop"
    /\ rest /= <<>>
    /\ ~StartsNewEvent(FirstLine(rest), i)
    /\ event' = event \o ChopLast(FirstLine(rest))
    /\ i' = i + 1
    /\ rest' = AfterFirstLine
    /\ UNCHANGED <<content, EVENTS, pcSplit>>
    /\ UNCHANGED <<addrVars, parseVars, batchVars>>

\* after the loop: EVENTS.append(event); return EVENTS
parse_events_return ==
    /\ pcSplit = "loop"
    /\ rest = <<>>
    /\ EVENTS' = Append(EVENTS, event)
    /\ pcSplit' = "done"
    /\ UNCHANGED <<content, rest, event, i>>
    /\ UNCHANGED <<addrVars, parseVars, batchVars>>

(***************************************************************************)
(* convert_string_to_int                                                   *)
(***************************************************************************)
AddrChars == {"0", "1", "5", "9", "a"}

\* the decoder without its branch for one digit
convert_string_to_int_nolen1(s) ==
    IF Len(s) < 1 \/ Len(s) > MAX_ADDR_LEN THEN Raise("ValueError")
    ELSE IF ~isdigit(s) THEN Raise("ValueError")
    ELSE IF s[1] = "0"
         THEN IF Len(s) > 1 THEN Value(int(Tail(s))) ELSE Value(0)
         ELSE Value(DigitVal(s[1]) * ADDR_BASE + int(Tail(s)))

\* the decoder without the upper limit on the length
convert_string_to_int_nocheck(s) ==
    IF Len(s) < 1 THEN Raise("ValueError")
    ELSE IF ~isdigit(s) THEN Raise("ValueError")
    ELSE IF s[1] = "0"
         THEN IF Len(s) > 1 THEN Value(int(Tail(s))) ELSE Value(0)
         ELSE IF Len(s) = 1 THEN Value(int(s))
         ELSE Value(DigitVal(s[1]) * ADDR_BASE + int(Tail(s)))

\* convert_string_to_int(s)
convert_string_to_int(s) ==
    IF Len(s) < 1 \/ Len(s) > MAX_ADDR_LEN THEN Raise("ValueError")
    ELSE IF ~isdigit(s) THEN Raise("ValueError")
    ELSE IF s[1] = "0"
         THEN IF Len(s) > 1 THEN Value(int(Tail(s))) ELSE Value(0)
         ELSE IF Len(s) = 1 THEN Value(int(s))
         ELSE Value(DigitVal(s[1]) * ADDR_BASE + int(Tail(s)))

\* a call of the decoder on addr_in
Decode ==
    /\ pcAddr = "call"
    /\ addr_out' = convert_string_to_int(addr_in)
    /\ pcAddr' = "done"
    /\ UNCHANGED addr_in
    /\ UNCHANGED <<splitVars, parseVars, batchVars>>

(***************************************************************************)
(* parse_fields                                                            *)
(*                                                                         *)
(* An event string is the record of what the code reads from it: its first *)
(* character (mode), the timestamp token, the node id of the path token,   *)
(* and for each field name the text parse_field_value returns ("" where    *)
(* the field is absent: Python tests the result for truth, and "" is       *)
(* false like None).  DestAddress is the raw text after "DestAddress="     *)
(* (calc_recv_packets reads it again from ORIGINAL_LINE).                  *)
(***************************************************************************)
Absent == <<>>

UNKNOWN == <<"U", "N", "K", "N", "O", "W", "N">>

False == <<"F", "a", "l", "s", "e">>

ADDR_000 == <<"0", "0", "0">>

NODE_VALUES ==
    [PROCESSED_RX_COUNT |-> 0, RX_ENERGY |-> Zero, TX_ENERGY |-> Zero,
     IDLE_ENERGY |-> Zero, COLLISION_COUNT |-> 0, LAST_TS |-> Zero]

Columns ==
    {"bad", "MODE", "TS", "NODE_ID", "TX_POWER", "RX_POWER", "TX_TIME",
     "DIRECTION", "NUM_FORWARDS", "ERROR", "UNIQUE_ID", "PTYPE",
     "PAYLOAD_SIZE", "MAC_SRC_ADDR", "MAC_DST_ADDR", "ORIGINAL_LINE"}

EmptyTrace == [c \in Columns |-> <<>>]

\* NODE_INFO holds the nodes an event has touched; every other key of the
\* dictionary (the preallocated 0..NODE_PREALLOC-1) still equals NODE_VALUES
Node(info, n) == IF n \in DOMAIN info THEN info[n] ELSE NODE_VALUES

NodeKeys(info) == (0..(NODE_PREALLOC - 1)) \cup DOMAIN info

\* (header_size * 8) / LINK_SPEED, a number of seconds, as the code adds it
\* to and subtracts it from a timestamp
AirTime(size) == Num(0, size)

\* the same duration in nanoseconds, the unit of the timestamps
AirTimeNs(size) == Num(size, 0)

\* seconds * POWER
AirEnergy(size, power) == NumScale(AirTimeNs(size), power)

\* ((ts - LAST_TS) / 1000000000.0) * IDLE_POWER
IdleEnergy(nd, ts) == NumScale(NumSub(ts, nd.LAST_TS), IDLE_POWER)

\* the field's text with nothing put where the field is absent
OrDefaultNone(text, default) == text

\* the field's text, or what the code puts where the field is absent
OrDefault(text, default) == IF text /= Absent THEN text ELSE default

\* int(size_match), else 50
PayloadSize(e) == IF e.Size /= Absent THEN int(e.Size) ELSE DEFAULT_PAYLOAD

\* txtime_match.replace('+', '').replace('ns', '')
RECURSIVE StripTxTime(_)
StripTxTime(s) ==
    IF s = <<>> THEN <<>>
    ELSE IF Head(s) = "+" THEN StripTxTime(Tail(s))
    ELSE IF Len(s) >= 2 /\ s[1] = "n" /\ s[2] = "s"
         THEN StripTxTime(SubSeq(s, 3, Len(s)))
    ELSE <<Head(s)>> \o StripTxTime(Tail(s))

\* float(txtime_str), 0.0 on ValueError and where the field is absent
TxTime(e) ==
    IF e.TxTime /= Absent /\ isdigit(StripTxTime(e.TxTime))
    THEN int(StripTxTime(e.TxTime)) ELSE 0

\* the destination of an RX event: DA, else DestAddress, else "000"
RxDestination(e) ==
    IF e.DA /= Absent THEN e.DA
    ELSE IF e.DestAddress /= Absent THEN e.DestAddress
    ELSE ADDR_000

\* the destination of a TX event: DA, else "000"
TxDestination(e) == OrDefault(e.DA, ADDR_000)

\* How far the handler of event e gets: the number of conversions that can
\* raise (int of Size, int of NumForwards, unique_id) it passes.
StagesPassed(e, uid) ==
    IF e.Size /= Absent /\ ~isdigit(e.Size) THEN 0
    ELSE IF e.NumForwards /= Absent /\ ~isdigit(e.NumForwards) THEN 1
    ELSE IF e.UniqueID /= Absent /\ ~isdigit(e.UniqueID) THEN 2
    ELSE IF e.UniqueID = Absent /\ uid = <<>> THEN 2
    ELSE 3

\* the exception that ends the handler of e, "none" if it completes
FaultOf(e, uid) ==
    IF StagesPassed(e, uid) = 3 THEN "none"
    ELSE IF StagesPassed(e, uid) = 2 /\ e.UniqueID = Absent
         THEN "UnboundLocalError"
    ELSE "ValueError"

\* the columns without the collision flag
ColumnsUpToUnflagged(k) ==
    {"ORIGINAL_LINE", "PTYPE", "MODE", "TS", "NODE_ID", "TX_POWER"}
    \cup (IF k >= 1 THEN {"PAYLOAD_SIZE", "RX_POWER", "TX_TIME", "DIRECTION"}
          ELSE {})
    \cup (IF k >= 2 THEN {"NUM_FORWARDS", "ERROR"} ELSE {})
    \cup (IF k >= 3 THEN {"UNIQUE_ID", "MAC_SRC_ADDR", "MAC_DST_ADDR"}
          ELSE {})

\* the columns the handler has appended to when it has passed k conversions
ColumnsUpTo(k) ==
    {"ORIGINAL_LINE", "PTYPE", "MODE", "TS", "NODE_ID", "TX_POWER"}
    \cup (IF k >= 1 THEN {"PAYLOAD_SIZE", "RX_POWER", "TX_TIME", "DIRECTION"}
          ELSE {})
    \cup (IF k >= 2 THEN {"NUM_FORWARDS", "ERROR"} ELSE {})
    \cup (IF k >= 3 THEN {"UNIQUE_ID", "MAC_SRC_ADDR", "MAC_DST_ADDR", "bad"}
          ELSE {})

\* `unique_id` after the UniqueID lines of the handler
UniqueIdAfter(e, uid) ==
    IF e.UniqueID /= Absent THEN <<int(e.UniqueID)>> ELSE uid

\* ts >= NODE_INFO[node_id]["LAST_TS"]
TxFree(nd, ts) == NumGeq(ts, nd.LAST_TS)

\* (ts - (header_size * 8) / LINK_SPEED) >= NODE_INFO[node_id]["LAST_TS"]
RxFree(nd, ts, size) == NumGeq(NumSub(ts, AirTime(size)), nd.LAST_TS)

\* the TX update with the idle energy added before the test of LAST_TS
UpdateNodeTxIdleAlways(nd, ts, size) ==
    LET spent == [nd EXCEPT !.TX_ENERGY =
                     NumAdd(NumAdd(@, AirEnergy(size, TX_POWER)),
                            AirEnergy(size, IDLE_POWER)),
                            !.IDLE_ENERGY = NumAdd(@, IdleEnergy(nd, ts))]
    IN  IF TxFree(nd, ts)
        THEN [spent EXCEPT !.LAST_TS = NumAdd(ts, AirTime(size))]
        ELSE [spent EXCEPT !.COLLISION_COUNT = @ + 1]

\* the TX update with LAST_TS moved by a collision too
UpdateNodeTxBusyAlways(nd, ts, size) ==
    LET spent == [nd EXCEPT !.TX_ENERGY =
                     NumAdd(NumAdd(@, AirEnergy(size, TX_POWER)),
                            AirEnergy(size, IDLE_POWER)),
                            !.LAST_TS = NumAdd(ts, AirTime(size))]
    IN  IF TxFree(nd, ts)
        THEN [spent EXCEPT !.IDLE_ENERGY = NumAdd(@, IdleEnergy(nd, ts))]
        ELSE [spent EXCEPT !.COLLISION_COUNT = @ + 1]

\* the node after a TX event
UpdateNodeTx(nd, ts, size) ==
    LET spent == [nd EXCEPT !.TX_ENERGY =
                     NumAdd(NumAdd(@, AirEnergy(size, TX_POWER)),
                            AirEnergy(size, IDLE_POWER))]
    IN  IF TxFree(nd, ts)
        THEN [spent EXCEPT !.IDLE_ENERGY = NumAdd(@, IdleEnergy(nd, ts)),
                           !.LAST_TS = NumAdd(ts, AirTime(size))]
        ELSE [spent EXCEPT !.COLLISION_COUNT = @ + 1]

\* the RX update with LAST_TS moved by a collision too
UpdateNodeRxBusyAlways(nd, ts, size) ==
    IF RxFree(nd, ts, size)
    THEN [nd EXCEPT !.PROCESSED_RX_COUNT = @ + 1,
                    !.IDLE_ENERGY = NumAdd(@, IdleEnergy(nd, ts)),
                    !.LAST_TS = ts,
                    !.RX_ENERGY = NumAdd(@, AirEnergy(size, RX_POWER))]
    ELSE [nd EXCEPT !.COLLISION_COUNT = @ + 1, !.LAST_TS = ts]

\* the RX update with a collision left out of COLLISION_COUNT
UpdateNodeRxUncounted(nd, ts, size) ==
    IF RxFree(nd, ts, size)
    THEN [nd EXCEPT !.PROCESSED_RX_COUNT = @ + 1,
                    !.IDLE_ENERGY = NumAdd(@, IdleEnergy(nd, ts)),
                    !.LAST_TS = ts,
                    !.RX_ENERGY = NumAdd(@, AirEnergy(size, RX_POWER))]
    ELSE nd

\* the node after an RX event
UpdateNodeRx(nd, ts, size) ==
    IF RxFree(nd, ts, size)
    THEN [nd EXCEPT !.PROCESSED_RX_COUNT = @ + 1,
                    !.IDLE_ENERGY = NumAdd(@, IdleEnergy(nd, ts)),
                    !.LAST_TS = ts,
                    !.RX_ENERGY = NumAdd(@, AirEnergy(size, RX_POWER))]
    ELSE [nd EXCEPT !.COLLISION_COUNT = @ + 1]

\* what the handler appends to each column
RowTx(e, uid, info) ==
    [ORIGINAL_LINE |-> e,
     PTYPE         |-> OrDefault(e.PacketType, UNKNOWN),
     MODE          |-> "TX",
     TS            |-> e.ts,
     NODE_ID       |-> e.node,
     TX_POWER      |-> TX_POWER,
     PAYLOAD_SIZE  |-> IF StagesPassed(e, uid) >= 1 THEN PayloadSize(e) ELSE 0,
     RX_POWER      |-> 0,
     TX_TIME       |-> TxTime(e),
     DIRECTION     |-> OrDefault(e.Direction, UNKNOWN),
     NUM_FORWARDS  |-> IF StagesPassed(e, uid) >= 2 /\ e.NumForwards /= Absent
                       THEN int(e.NumForwards) ELSE 0,
     ERROR         |-> OrDefault(e.Error, False),
     UNIQUE_ID     |-> IF StagesPassed(e, uid) = 3
                       THEN UniqueIdAfter(e, uid)[1] ELSE 0,
     MAC_SRC_ADDR  |-> OrDefault(e.SA, ADDR_000),
     MAC_DST_ADDR  |-> TxDestination(e),
     bad           |-> IF TxFree(Node(info, e.node), e.ts) THEN 0 ELSE 1]

RowRx(e, uid, info) ==
    [ORIGINAL_LINE |-> e,
     PTYPE         |-> OrDefault(e.PacketType, UNKNOWN),
     MODE          |-> "RX",
     TS            |-> e.ts,
     NODE_ID       |-> e.node,
     TX_POWER      |-> TX_POWER,
     PAYLOAD_SIZE  |-> IF StagesPassed(e, uid) >= 1 THEN PayloadSize(e) ELSE 0,
     RX_POWER      |-> 0,
     TX_TIME       |-> 0,
     DIRECTION     |-> OrDefault(e.Direction, UNKNOWN),
     NUM_FORWARDS  |-> IF StagesPassed(e, uid) >= 2 /\ e.NumForwards /= Absent
                       THEN int(e.NumForwards) ELSE 0,
     ERROR         |-> OrDefault(e.Error, False),
     UNIQUE_ID     |-> IF StagesPassed(e, uid) = 3
                       THEN UniqueIdAfter(e, uid)[1] ELSE 0,
     MAC_SRC_ADDR  |-> OrDefault(e.SA, ADDR_000),
     MAC_DST_ADDR  |-> RxDestination(e),
     bad           |-> IF StagesPassed(e, uid) >= 1
                          /\ RxFree(Node(info, e.node), e.ts, PayloadSize(e))
                       THEN 0 ELSE 1]

\* TRACE after the handler appended `row` to the columns it reached
AppendRow(T, row, k) ==
    [c \in Columns |-> IF c \in ColumnsUpTo(k) THEN Append(T[c], row[c]) ELSE T[c]]

\* one iteration of `for line in EVENTS`, line[0] == "t", no exception
parse_fields_tx(e) ==
    /\ pc = "parse"
    /\ e.mode = "t"
    /\ FaultOf(e, unique_id) = "none"
    /\ TRACE' = AppendRow(TRACE, RowTx(e, unique_id, NODE_INFO), 3)
    /\ unique_id' = UniqueIdAfter(e, unique_id)
    /\ NODE_INFO' = (e.node :> UpdateNodeTx(Node(NODE_INFO, e.node), e.ts,
                                            PayloadSize(e))) @@ NODE_INFO
    /\ read' = read + 1
    /\ UNCHANGED <<fault, pc, out>>
    /\ UNCHANGED <<batchVars, splitVars, addrVars, first>>

\* one iteration, line[0] == "r", no exception
parse_fields_rx(e) ==
    /\ pc = "parse"
    /\ e.mode = "r"
    /\ FaultOf(e, unique_id) = "none"
    /\ TRACE' = AppendRow(TRACE, RowRx(e, unique_id, NODE_INFO), 3)
    /\ unique_id' = UniqueIdAfter(e, unique_id)
    /\ NODE_INFO' = (e.node :> UpdateNodeRx(Node(NODE_INFO, e.node), e.ts,
                                            PayloadSize(e))) @@ NODE_INFO
    /\ read' = read + 1
    /\ UNCHANGED <<fault, pc, out>>
    /\ UNCHANGED <<batchVars, splitVars, addrVars, first>>

\* one iteration that raises: parse_fields ends, nothing is returned
parse_fields_raise(e) ==
    /\ pc = "parse"
    /\ e.mode \in {"t", "r"}
    /\ FaultOf(e, unique_id) /= "none"
    /\ TRACE' = AppendRow(TRACE,
                          IF e.mode = "t" THEN RowTx(e, unique_id, NODE_INFO)
                          ELSE RowRx(e, unique_id, NODE_INFO),
                          StagesPassed(e, unique_id))
    /\ fault' = FaultOf(e, unique_id)
    /\ pc' = "fault"
    /\ UNCHANGED <<NODE_INFO, unique_id, out>>
    /\ UNCHANGED <<batchVars, splitVars, addrVars, first, read>>

\* one iteration on a line that begins with neither "t" nor "r": neither
\* branch is taken
parse_fields_other(e) ==
    /\ pc = "parse"
    /\ e.mode \notin {"t", "r", ""}
    /\ read' = read + 1
    /\ UNCHANGED <<TRACE, NODE_INFO, unique_id, fault, pc, out>>
    /\ UNCHANGED <<batchVars, splitVars, addrVars, first>>

\* one iteration on the empty string (e.mode = ""): line[0] raises
parse_fields_empty(e) ==
    /\ pc = "parse"
    /\ e.mode = ""
    /\ fault' = "IndexError"
    /\ pc' = "fault"
    /\ UNCHANGED <<TRACE, NODE_INFO, unique_id, out>>
    /\ UNCHANGED <<batchVars, splitVars, addrVars, first, read>>

\* return TRACE, NODE_INFO
parse_fields_return ==
    /\ pc = "parse"
    /\ pc' = "done"
    /\ UNCHANGED <<TRACE, NODE_INFO, unique_id, fault, out>>
    /\ UNCHANGED <<batchVars, splitVars, addrVars, first, read>>

\* a second call parse_fields(EVENTS) with NODE_INFO not built anew
parse_fields_again_shared ==
    /\ pc \in {"done", "fault"}
    /\ first = <<>>
    /\ first' = <<[TRACE |-> TRACE, NODE_INFO |-> NODE_INFO, fault |-> fault,
                   returned |-> pc = "done"]>>
    /\ TRACE' = EmptyTrace
    /\ unique_id' = <<>>
    /\ fault' = "none"
    /\ pc' = "parse"
    /\ read' = 0
    /\ UNCHANGED <<NODE_INFO, out>>
    /\ UNCHANGED <<batchVars, splitVars, addrVars>>

\* a second call parse_fields(EVENTS) in the same process: the result of the
\* first call stays with the caller, and the call builds its TRACE and
\* NODE_INFO anew; `unique_id` is a local and unbound again
parse_fields_again ==
    /\ pc \in {"done", "fault"}
    /\ first = <<>>
    /\ first' = <<[TRACE |-> TRACE, NODE_INFO |-> NODE_INFO, fault |-> fault,
                   returned |-> pc = "done"]>>
    /\ TRACE' = EmptyTrace
    /\ NODE_INFO' = <<>>
    /\ unique_id' = <<>>
    /\ fault' = "none"
    /\ pc' = "parse"
    /\ read' = 0
    /\ UNCHANGED out
    /\ UNCHANGED <<batchVars, splitVars, addrVars>>

(***************************************************************************)
(* The metric functions                                                    *)
(***************************************************************************)
\* the longest run of digits beginning a text
RECURSIVE DigitRun(_)
DigitRun(s) ==
    IF s = <<>> \/ Head(s) \notin Digits THEN <<>>
    ELSE <<Head(s)>> \o DigitRun(Tail(s))

\* re.search(r'DestAddress=(\d+)', original_line): group 1, "" for no match
DestMatch(line) == DigitRun(line.DestAddress)

\* the test of calc_recv_packets on row k, and whether the row reaches the
\* decoder
RecvCandidate(T, k) ==
    /\ T.MODE[k] = "RX"
    /\ T.bad[k] = 0
    /\ DestMatch(T.ORIGINAL_LINE[k]) /= <<>>

\* the loop of calc_recv_packets from row k on, successful_deliveries = seen
RECURSIVE RecvLoop(_, _, _)
RecvLoop(T, k, seen) ==
    IF k > Len(T.TS) THEN Value(seen)
    ELSE IF ~RecvCandidate(T, k) THEN RecvLoop(T, k + 1, seen)
    ELSE LET dest == convert_string_to_int(DestMatch(T.ORIGINAL_LINE[k]))
         IN  IF dest.fault /= "none" THEN Raise(dest.fault)
             ELSE IF dest.value = T.NODE_ID[k] + 1
                  THEN RecvLoop(T, k + 1, seen \cup {T.UNIQUE_ID[k]})
                  ELSE RecvLoop(T, k + 1, seen)

\* the loop with a counter in place of the set
RECURSIVE RecvCountLoop(_, _, _)
RecvCountLoop(T, k, n) ==
    IF k > Len(T.TS) THEN Value(n)
    ELSE IF ~RecvCandidate(T, k) THEN RecvCountLoop(T, k + 1, n)
    ELSE LET dest == convert_string_to_int(DestMatch(T.ORIGINAL_LINE[k]))
         IN  IF dest.fault /= "none" THEN Raise(dest.fault)
             ELSE IF dest.value = T.NODE_ID[k] + 1
                  THEN RecvCountLoop(T, k + 1, n + 1)
                  ELSE RecvCountLoop(T, k + 1, n)

calc_recv_packets_nodedup(T) == RecvCountLoop(T, 1, 0)

\* calc_recv_packets(TRACE): len(successful_deliveries), or the ValueError
\* of the decoder
calc_recv_packets(T) ==
    LET r == RecvLoop(T, 1, {})
    IN  IF r.fault /= "none" THEN r ELSE Value(Cardinality(r.value))

\* for i in range(len(TRACE["TS"])): num_sent_packets += 1
calc_sent_packets(T) == Len(T.TS)

\* TRACE["RX/TX-MODE"].count("TX"), .count("RX")
calc_tx_calls(T) == Cardinality({k \in 1..Len(T.MODE) : T.MODE[k] = "TX"})

calc_rx_calls(T) == Cardinality({k \in 1..Len(T.MODE) : T.MODE[k] = "RX"})

RECURSIVE SumOver(_, _, _)
SumOver(info, keys, field) ==
    IF keys = {} THEN 0
    ELSE LET n == CHOOSE x \in keys : TRUE
         IN  info[n][field] + SumOver(info, keys \ {n}, field)

\* for i in range(len(NODE_INFO)): res = res + NODE_INFO[i][...].  The
\* dictionary has the NODE_PREALLOC keys it was built with and the keys
\* ensure_node_exists added above them; NODE_INFO[i] raises KeyError for an
\* i that is not a key.
calc_rx_nocol_calls(info) ==
    LET added == {n \in DOMAIN info : n >= NODE_PREALLOC}
        len   == NODE_PREALLOC + Cardinality(added)
    IN  IF \E k \in NODE_PREALLOC..(len - 1) : k \notin added
        THEN Raise("KeyError")
        ELSE Value(SumOver(info, DOMAIN info, "PROCESSED_RX_COUNT"))

RECURSIVE NumSumOver(_, _, _)
NumSumOver(info, keys, field) ==
    IF keys = {} THEN Zero
    ELSE LET n == CHOOSE x \in keys : TRUE
         IN  NumAdd(info[n][field], NumSumOver(info, keys \ {n}, field))

\* the sum over the nodes of the three energies (the nodes no event touched
\* add 0.0)
calc_energy_consumption(info) ==
    NumAdd(NumSumOver(info, DOMAIN info, "RX_ENERGY"),
           NumAdd(NumSumOver(info, DOMAIN info, "TX_ENERGY"),
                  NumSumOver(info, DOMAIN info, "IDLE_ENERGY")))

\* the sum over the nodes of COLLISION_COUNT
calc_total_collisions(info) == SumOver(info, DOMAIN info, "COLLISION_COUNT")

\* the division without the test of n_recv_packets
calc_energy_per_bit_unguarded(info, T) ==
    LET n_recv_packets == calc_recv_packets(T)
    IN  IF n_recv_packets.fault /= "none"
        THEN [fault |-> n_recv_packets.fault, num |-> Zero, den |-> 1]
        ELSE IF n_recv_packets.value = 0
        THEN [fault |-> "ZeroDivisionError", num |-> Zero, den |-> 1]
        ELSE [fault |-> "none", num |-> calc_energy_consumption(info),
              den |-> n_recv_packets.value * PACKET_SIZE * 8]

\* total_energy / (n_recv_packets * PACKET_SIZE * 8) as a fraction
calc_energy_per_bit(info, T) ==
    LET n_recv_packets == calc_recv_packets(T)
    IN  IF n_recv_packets.fault /= "none"
        THEN [fault |-> n_recv_packets.fault, num |-> Zero, den |-> 1]
        ELSE IF n_recv_packets.value = 0
        THEN [fault |-> "none", num |-> Zero, den |-> 1]
        ELSE [fault |-> "none", num |-> calc_energy_consumption(info),
              den |-> n_recv_packets.value * PACKET_SIZE * 8]

\* n_tx * TRACE["PAYLOAD_SIZE"][0]
calc_throughput(T) ==
    IF T.PAYLOAD_SIZE = <<>> THEN Raise("IndexError")
    ELSE Value(calc_tx_calls(T) * T.PAYLOAD_SIZE[1])

\* float(n_recv_packets) / n_sent_packets as a fraction
calc_pdr(T) ==
    LET n_recv_packets == calc_recv_packets(T)
        n_sent_packets == calc_sent_packets(T)
    IN  IF n_recv_packets.fault /= "none"
        THEN [fault |-> n_recv_packets.fault, num |-> 0, den |-> 1]
        ELSE IF n_sent_packets = 0
        THEN [fault |-> "ZeroDivisionError", num |-> 0, den |-> 1]
        ELSE [fault |-> "none", num |-> n_recv_packets.value,
              den |-> n_sent_packets]

\* int(TRACE["MAC_DST_ADDR"][i]) == TRACE["NODE_ID"][i] + 1
ForNode(T, k) == int(T.MAC_DST_ADDR[k]) = T.NODE_ID[k] + 1

\* int() raises ValueError on an address that is not decimal digits; the
\* loops of calc_delay and calc_isntantaneous_throughput evaluate it on
\* every row
BadAddr(T) == \E k \in 1..Len(T.TS) : ~isdigit(T.MAC_DST_ADDR[k])

\* the rows j of the inner loop of calc_delay for row k
Senders(T, k) ==
    {j \in 1..Len(T.TS) :
        T.UNIQUE_ID[j] = T.UNIQUE_ID[k] /\ T.MODE[j] = "TX"}

\* the sum of TS[k] - TS[j] over the rows js
RECURSIVE DelaySum(_, _, _)
DelaySum(T, k, js) ==
    IF js = {} THEN Zero
    ELSE LET j == CHOOSE x \in js : TRUE
         IN  NumAdd(NumSub(T.TS[k], T.TS[j]), DelaySum(T, k, js \ {j}))

\* the outer loop of calc_delay from row k on; `delays` is kept as the sum
\* and the number of its entries
RECURSIVE DelayLoop(_, _, _, _)
DelayLoop(T, k, processed_ids, delays) ==
    IF k > Len(T.TS) THEN delays
    ELSE IF ForNode(T, k) /\ T.UNIQUE_ID[k] \notin processed_ids
    THEN DelayLoop(T, k + 1, processed_ids \cup {T.UNIQUE_ID[k]},
                   [sum |-> NumAdd(delays.sum, DelaySum(T, k, Senders(T, k))),
                    n   |-> delays.n + Cardinality(Senders(T, k))])
    ELSE DelayLoop(T, k + 1, processed_ids, delays)

\* numpy.array(delays).mean(): the mean is sum / n, in nanoseconds here
\* (the code divides each entry by 1e9), and NaN for no entries
calc_delay(T) ==
    IF BadAddr(T)
    THEN [fault |-> "ValueError", nan |-> FALSE, sum |-> Zero, n |-> 0]
    ELSE LET delays == DelayLoop(T, 1, {}, [sum |-> Zero, n |-> 0])
         IN  [fault |-> "none", nan |-> delays.n = 0,
              sum |-> delays.sum, n |-> delays.n]

\* the first loop of calc_isntantaneous_throughput: the first row for the
\* node starts the first window and is counted
InstStart(T) ==
    LET rows == {k \in 1..Len(T.TS) : ForNode(T, k)}
    IN  IF rows = {} THEN [start_ts |-> Zero, num_recv_packets |-> 0]
        ELSE [start_ts |-> T.TS[CHOOSE k \in rows : \A r \in rows : k <= r],
              num_recv_packets |-> 1]

\* previous_average + (current_throughput - previous_average) / k
MovingAverageHalf(previous_average, current_throughput, k) ==
    FracDiv(FracAdd(previous_average, current_throughput), 2)

MovingAverage(previous_average, current_throughput, k) ==
    FracAdd(previous_average,
            FracDiv(FracSub(current_throughput, previous_average), k))

\* the test with half the length of the window
WindowOpenHalf(elapsed) == NumLt(elapsed, Seconds(WINDOW_SECONDS \div 2))

\* float(TRACE["TS"][i] - start_ts) < 10000000000.0
WindowOpen(elapsed) == NumLt(elapsed, Seconds(WINDOW_SECONDS))

\* the second loop from row k on.  `counts` is num_recv_packets at each
\* append.  A sample is (num_recv_packets * PACKET_SIZE * 8) over the
\* seconds of the window; the windows that close are whole multiples of
\* 100000 ns long (the timestamps of TputEvents are whole seconds).
RECURSIVE InstLoop(_, _, _)
InstLoop(T, k, st) ==
    IF k > Len(T.TS) THEN st
    ELSE IF ForNode(T, k) /\ T.UNIQUE_ID[k] \notin st.processed_ids
    THEN LET elapsed == NumSub(T.TS[k], st.start_ts)
             current_throughput ==
                 Frac(st.num_recv_packets * PACKET_SIZE * 8 * TicksPerNs,
                      elapsed.hi)
             current_average ==
                 MovingAverage(st.previous_average, current_throughput, st.k)
         IN  IF WindowOpen(elapsed)
             THEN InstLoop(T, k + 1,
                      [st EXCEPT !.processed_ids = @ \cup {T.UNIQUE_ID[k]},
                                 !.num_recv_packets = @ + 1])
             ELSE InstLoop(T, k + 1,
                      [st EXCEPT !.processed_ids = @ \cup {T.UNIQUE_ID[k]},
                                 !.timestamps = Append(@, T.TS[k]),
                                 !.throughputs = Append(@, current_throughput),
                                 !.moving_average = Append(@, current_average),
                                 !.counts = Append(@, st.num_recv_packets),
                                 !.previous_average = current_average,
                                 !.k = @ + 1,
                                 !.start_ts = T.TS[k],
                                 !.num_recv_packets = 1])
    ELSE InstLoop(T, k + 1, st)

\* calc_isntantaneous_throughput(TRACE): (timestamps, throughputs,
\* moving_average), with the locals num_recv_packets and counts
calc_isntantaneous_throughput(T) ==
    LET st == InstLoop(T, 2,
                  [processed_ids |-> {}, timestamps |-> <<>>,
                   throughputs |-> <<>>, moving_average |-> <<>>,
                   counts |-> <<>>, previous_average |-> Frac(0, 1), k |-> 1,
                   start_ts |-> InstStart(T).start_ts,
                   num_recv_packets |-> InstStart(T).num_recv_packets])
    IN  IF BadAddr(T)
        THEN [fault |-> "ValueError", timestamps |-> <<>>,
              throughputs |-> <<>>, moving_average |-> <<>>,
              counts |-> <<>>, num_recv_packets |-> 0]
        ELSE [fault |-> "none", timestamps |-> st.timestamps,
              throughputs |-> st.throughputs,
              moving_average |-> st.moving_average,
              counts |-> st.counts, num_recv_packets |-> st.num_recv_packets]

NoMetrics ==
    [recv_packets |-> Value(0), sent_packets |-> 0, pdr |-> calc_pdr(EmptyTrace),
     energy_per_bit |-> calc_energy_per_bit(<<>>, EmptyTrace),
     energy_consumption |-> Zero, total_collisions |-> 0,
     tx_calls |-> 0, rx_calls |-> 0, rx_nocol_calls |-> Value(0),
     throughput |-> calc_throughput(EmptyTrace),
     average_delay |-> calc_delay(EmptyTrace),
     instantaneous_throughput |-> calc_isntantaneous_throughput(EmptyTrace)]

\* the metric functions with the collision flags cleared once they are read
CalcMetricsClearingFlags ==
    /\ pc \in {"done", "reported"}
    /\ out' = [recv_packets       |-> calc_recv_packets(TRACE),
               sent_packets       |-> calc_sent_packets(TRACE),
               pdr                |-> calc_pdr(TRACE),
               energy_per_bit     |-> calc_energy_per_bit(NODE_INFO, TRACE),
               energy_consumption |-> calc_energy_consumption(NODE_INFO),
               total_collisions   |-> calc_total_collisions(NODE_INFO),
               tx_calls           |-> calc_tx_calls(TRACE),
               rx_calls           |-> calc_rx_calls(TRACE),
               rx_nocol_calls     |-> calc_rx_nocol_calls(NODE_INFO),
               throughput         |-> calc_throughput(TRACE),
               average_delay      |-> calc_delay(TRACE),
               instantaneous_throughput |->
                   calc_isntantaneous_throughput(TRACE)]
    /\ pc' = "reported"
    /\ TRACE' = [TRACE EXCEPT !.bad = [k \in DOMAIN @ |-> 0]]
    /\ UNCHANGED <<NODE_INFO, unique_id, fault>>
    /\ UNCHANGED <<batchVars, splitVars, addrVars, first, read>>

\* the caller of parse_fields calls the metric functions on what it returned
CalcMetrics ==
    /\ pc \in {"done", "reported"}
    /\ out' = [recv_packets       |-> calc_recv_packets(TRACE),
               sent_packets       |-> calc_sent_packets(TRACE),
               pdr                |-> calc_pdr(TRACE),
               energy_per_bit     |-> calc_energy_per_bit(NODE_INFO, TRACE),
               energy_consumption |-> calc_energy_consumption(NODE_INFO),
               total_collisions   |-> calc_total_collisions(NODE_INFO),
               tx_calls           |-> calc_tx_calls(TRACE),
               rx_calls           |-> calc_rx_calls(TRACE),
               rx_nocol_calls     |-> calc_rx_nocol_calls(NODE_INFO),
               throughput         |-> calc_throughput(TRACE),
               average_delay      |-> calc_delay(TRACE),
               instantaneous_throughput |->
                   calc_isntantaneous_throughput(TRACE)]
    /\ pc' = "reported"
    /\ UNCHANGED <<TRACE, NODE_INFO, unique_id, fault>>
    /\ UNCHANGED <<batchVars, splitVars, addrVars, first, read>>

(***************************************************************************)
(* run_batch_simulation (scripts/run_aloha_and_print.py)                   *)
(*                                                                         *)
(* None is <<>> and a value v is <<v>>; a cell of the CSV file is <<>> for *)
(* the empty string.  What the programs run_single_simulation starts do is *)
(* a record w: whether each step succeeds and what the output shows.       *)
(***************************************************************************)
None == <<>>

Worlds ==
    [update_aloha_cc : BOOLEAN, update_print_script : BOOLEAN,
     run_ns3_simulation : BOOLEAN, run_print_script : BOOLEAN,
     rx_packets : {None, <<5>>}, tx_count : {None, <<7>>}]

\* run_single_simulation: (success, rx_packets, tx_count)
run_single_simulation(w, no_sim, no_print) ==
    LET failure == [success |-> FALSE, rx_packets |-> None, tx_count |-> None]
    IN  IF ~w.update_aloha_cc THEN failure
        ELSE IF ~w.update_print_script THEN failure
        ELSE IF ~no_sim /\ ~w.run_ns3_simulation THEN failure
        ELSE IF ~no_print
             THEN IF ~w.run_print_script THEN failure
                  ELSE [success |-> TRUE, rx_packets |-> w.rx_packets,
                        tx_count |-> w.tx_count]
        ELSE [success |-> TRUE, rx_packets |-> None, tx_count |-> None]

\* success and rx_packets is not None and tx_count is not None
Succeeded(r) == r.success /\ r.rx_packets /= None /\ r.tx_count /= None

\* len(n_nodes_list) * len(lambda_list) * repeat_count
total_combinations == Len(n_nodes_list) * Len(lambda_list) * repeat_count

\* the nesting with the lambda values in the outer loop
CombinationLambdaFirst(k) ==
    LET c == k \div repeat_count
    IN  [n_nodes    |-> n_nodes_list[(c % Len(n_nodes_list)) + 1],
         lambda_val |-> lambda_list[(c \div Len(n_nodes_list)) + 1],
         repeat     |-> (k % repeat_count) + 1]

\* the (n_nodes, lambda_val, repeat) of the run after k runs:
\* for n_nodes, lambda_val in product(n_nodes_list, lambda_list):
\*     for repeat in range(1, repeat_count + 1)
Combination(k) ==
    LET c == k \div repeat_count
    IN  [n_nodes    |-> n_nodes_list[(c \div Len(lambda_list)) + 1],
         lambda_val |-> lambda_list[(c % Len(lambda_list)) + 1],
         repeat     |-> (k % repeat_count) + 1]

\* the call run_single_simulation(n_nodes, lambda_val, ..., rng_seed) of
\* this iteration, rng_seed = repeat, and whether the run counted as done
Call(w) ==
    [n_nodes |-> Combination(completed).n_nodes,
     lambda_val |-> Combination(completed).lambda_val,
     rng_seed |-> Combination(completed).repeat,
     ok |-> Succeeded(run_single_simulation(w, skip_sim, skip_print))]

\* the row of this iteration
Row(rx, tx) ==
    [n_nodes |-> Combination(completed).n_nodes,
     lambda |-> Combination(completed).lambda_val,
     repeat |-> Combination(completed).repeat,
     RxPackets |-> rx, TxCount |-> tx]

\* an iteration whose run succeeded: the row with the two metrics
batch_success(w) ==
    /\ pcBatch = "loop"
    /\ completed < total_combinations
    /\ Call(w).ok
    /\ completed' = completed + 1
    /\ calls' = Append(calls, Call(w))
    /\ csv' = Append(csv,
                     Row(run_single_simulation(w, skip_sim, skip_print).rx_packets,
                         run_single_simulation(w, skip_sim, skip_print).tx_count))
    /\ UNCHANGED <<n_nodes_list, lambda_list, repeat_count, skip_failed,
                   skip_sim, skip_print, returned, pcBatch>>
    /\ UNCHANGED <<splitVars, addrVars, parseVars>>

\* an iteration whose run failed, with skip_failed: the row with '' and ''
batch_skip(w) ==
    /\ pcBatch = "loop"
    /\ completed < total_combinations
    /\ ~Call(w).ok
    /\ skip_failed
    /\ completed' = completed + 1
    /\ calls' = Append(calls, Call(w))
    /\ csv' = Append(csv, Row(<<>>, <<>>))
    /\ UNCHANGED <<n_nodes_list, lambda_list, repeat_count, skip_failed,
                   skip_sim, skip_print, returned, pcBatch>>
    /\ UNCHANGED <<splitVars, addrVars, parseVars>>

\* an iteration whose run failed, without skip_failed: return False
batch_stop(w) ==
    /\ pcBatch = "loop"
    /\ completed < total_combinations
    /\ ~Call(w).ok
    /\ ~skip_failed
    /\ completed' = completed + 1
    /\ calls' = Append(calls, Call(w))
    /\ returned' = "False"
    /\ pcBatch' = "done"
    /\ UNCHANGED <<n_nodes_list, lambda_list, repeat_count, skip_failed,
                   skip_sim, skip_print, csv>>
    /\ UNCHANGED <<splitVars, addrVars, parseVars>>

\* the loops are over: return True
batch_return ==
    /\ pcBatch = "loop"
    /\ completed = total_combinations
    /\ returned' = "True"
    /\ pcBatch' = "done"
    /\ UNCHANGED <<n_nodes_list, lambda_list, repeat_count, skip_failed,
                   skip_sim, skip_print, completed, calls, csv>>
    /\ UNCHANGED <<splitVars, addrVars, parseVars>>

(***************************************************************************)
(* The inputs and the specifications                                       *)
(***************************************************************************)
Str1(a) == <<a>>

Str2(a, b) == <<a, b>>

\* timestamps: 0 ns, 0.001 ns, 100000 ns, 6000000 ns (50 bytes are on the
\* air for 5000000 ns)
Timestamps == {Ts(0, 0), Ts(0, 10), Ts(100000, 0), Ts(6000000, 0)}

Nodes == {0, 1}

\* <<Size, UniqueID, DA, DestAddress>> of an event
Plain == <<Absent, Str1("1"), Absent, Absent>>

Sized == <<Str2("2", "0"), Str1("2"), Absent, Absent>>

NoId == <<Absent, Absent, Absent, Absent>>

Dest(uid, da, dest) == <<Absent, uid, da, dest>>

Event(m, t, n, p) ==
    [mode |-> m, ts |-> t, node |-> n, PacketType |-> Absent, Size |-> p[1],
     TxTime |-> Absent, Direction |-> Absent, NumForwards |-> Absent,
     Error |-> Absent, UniqueID |-> p[2], SA |-> Absent, DA |-> p[3],
     DestAddress |-> p[4]]

\* events that differ in mode, time, node and size
TimingEvents ==
    {Event(m, t, n, Plain) : m \in {"t", "r"}, t \in Timestamps, n \in Nodes}
    \cup {Event(m, t, 0, Sized) : m \in {"t", "r"}, t \in Timestamps}

\* events without a UniqueID field
NoIdEvents ==
    {Event(m, t, 0, NoId) : m \in {"t", "r"}, t \in {Ts(0, 0), Ts(100000, 0)}}

\* events with a destination: "02" is node 1 and "1" is node 0
AddressEvents ==
    {Event("r", t, n, Dest(Str1("1"), Absent, Str2("0", "2"))) :
        t \in {Ts(0, 0), Ts(100000, 0)}, n \in Nodes}
    \cup {Event("r", t, 1, Dest(Str1("2"), Absent, Str2("0", "2"))) :
        t \in {Ts(0, 0), Ts(100000, 0)}}
    \cup {Event("r", t, 1, Dest(Str1("1"), Absent, <<"0", "0", "0", "0", "2">>)) :
        t \in {Ts(0, 0), Ts(100000, 0)}}
    \cup {Event("t", Ts(0, 0), 1, Dest(Str1("1"), Absent, Str2("0", "2"))),
          Event("t", Ts(0, 0), 1, Dest(Str1("1"), Absent, <<"0", "0", "0", "0", "2">>)),
          Event("r", Ts(100000, 0), 0, Dest(Str1("1"), Absent, Str1("1"))),
          Event("r", Ts(100000, 0), 1, Dest(Str1("1"), Str2("0", "2"), Absent)),
          Event("r", Ts(100000, 0), 1, Dest(Str1("1"), Absent, <<"0", "2", "a">>)),
          Event("r", Ts(100000, 0), 1, Dest(Str1("1"), Absent, <<"a", "0", "2">>))}

\* an event of a node above the preallocated ones
FarEvents == {Event("r", Ts(6000000, 0), NODE_PREALLOC + 200, Plain)}

Events == TimingEvents \cup NoIdEvents \cup AddressEvents \cup FarEvents

\* the events of the traces of SpecAddr: one event that carries addr_in
ProbeEvents ==
    {Event(m, t, 0, Dest(Str1("1"), Absent, addr_in)) :
        m \in {"t", "r"}, t \in {Ts(0, 0), Ts(100000, 0)}}

BatchIdle ==
    /\ n_nodes_list = <<>> /\ lambda_list = <<>> /\ repeat_count = 1
    /\ skip_failed = FALSE /\ skip_sim = FALSE /\ skip_print = FALSE
    /\ completed = 0 /\ calls = <<>> /\ csv = <<>> /\ returned = "none"
    /\ pcBatch = "idle"

SplitIdle ==
    /\ content = <<>> /\ rest = <<>> /\ event = <<>> /\ i = 0
    /\ EVENTS = <<>> /\ pcSplit = "idle"

AddrIdle == addr_in = <<>> /\ addr_out = Value(0) /\ pcAddr = "idle"

ParseStart ==
    /\ TRACE = EmptyTrace /\ NODE_INFO = <<>> /\ unique_id = <<>>
    /\ fault = "none" /\ pc = "parse" /\ out = NoMetrics /\ first = <<>>
    /\ read = 0

ParseIdle ==
    /\ TRACE = EmptyTrace /\ NODE_INFO = <<>> /\ unique_id = <<>>
    /\ fault = "none" /\ pc = "idle" /\ out = NoMetrics /\ first = <<>>
    /\ read = 0

\* EVENTS has at most n events: the loop of parse_fields has read fewer
Within(n) == read < n

\* parse_fields on any events, then the metrics
Init == SplitIdle /\ AddrIdle /\ ParseStart /\ BatchIdle

Next ==
    \/ \E e \in Events : Within(MaxEvents) /\ parse_fields_tx(e)
    \/ \E e \in Events : Within(MaxEvents) /\ parse_fields_rx(e)
    \/ \E e \in Events : Within(MaxEvents) /\ parse_fields_raise(e)
    \/ parse_fields_return
    \/ CalcMetrics

Spec == Init /\ [][Next]_vars

\* parse_fields and the metrics on the events that differ in mode, time,
\* node and size only
NextTiming ==
    \/ \E e \in TimingEvents : Within(MaxEvents) /\ parse_fields_tx(e)
    \/ \E e \in TimingEvents : Within(MaxEvents) /\ parse_fields_rx(e)
    \/ parse_fields_return
    \/ CalcMetrics

SpecTiming == Init /\ [][NextTiming]_vars

\* events of whole-second timestamps for the metrics over time: receptions
\* at node 1 with and without its address "2", transmissions of node 0 to
\* that address, and a transmission of node 1 that carries it
TputEvents ==
    {Event("r", Seconds(t), 1, Dest(Str1(u), Str1("2"), Absent)) :
        t \in {0, 10, 20, 30}, u \in {"1", "2"}}
    \cup {Event("r", Seconds(5), 1, Dest(Str1("1"), Str1("2"), Absent)),
          Event("r", Seconds(0), 1, Dest(Str1("1"), Absent, Absent)),
          Event("t", Seconds(0), 0, Dest(Str1("1"), Str1("2"), Absent)),
          Event("t", Seconds(0), 0, Dest(Str1("2"), Str1("2"), Absent)),
          Event("t", Seconds(0), 1, Dest(Str1("1"), Str1("2"), Absent))}

\* parse_fields on the events of TputEvents, then the metrics, any number
\* of times
NextTput ==
    \/ \E e \in TputEvents : Within(MaxRecords) /\ parse_fields_tx(e)
    \/ \E e \in TputEvents : Within(MaxRecords) /\ parse_fields_rx(e)
    \/ parse_fields_return
    \/ CalcMetrics

SpecTput == Init /\ [][NextTput]_vars

\* one event with every optional field present or absent, and the numeric
\* fields also with a value that is not a number; UniqueID is present
FieldEvents ==
    {[mode |-> m, ts |-> Ts(6000000, 0), node |-> 0, PacketType |-> p,
      Size |-> s, TxTime |-> x, Direction |-> d, NumForwards |-> f,
      Error |-> r, UniqueID |-> Str1("1"), SA |-> a, DA |-> b,
      DestAddress |-> c] :
        m \in {"t", "r"}, p \in {Absent, Str1("D")},
        s \in {Absent, Str2("2", "0"), Str1("x")},
        x \in {Absent, <<"+", "5", "n", "s">>, Str1("x")},
        d \in {Absent, Str1("U")},
        f \in {Absent, Str1("3"), Str1("x")},
        r \in {Absent, Str1("T")}, a \in {Absent, Str1("1")},
        b \in {Absent, Str1("2")}, c \in {Absent, Str1("2")}}

\* parse_fields on one event of FieldEvents, then the metrics
NextFields ==
    \/ \E e \in FieldEvents : Within(1) /\ parse_fields_tx(e)
    \/ \E e \in FieldEvents : Within(1) /\ parse_fields_rx(e)
    \/ \E e \in FieldEvents : Within(1) /\ parse_fields_raise(e)
    \/ parse_fields_return
    \/ CalcMetrics

SpecFields == Init /\ [][NextFields]_vars

\* the events of the traces that are parsed twice
TwiceEvents ==
    {Event(m, t, 0, Plain) : m \in {"t", "r"}, t \in Timestamps}
    \cup NoIdEvents

\* the events the loop may read next: any, in the first call; in the second
\* call the next of the EVENTS the first call was given
NextEvent ==
    IF first = <<>>
    THEN {e \in TwiceEvents : Within(MaxEvents)}
    ELSE {first[1].TRACE.ORIGINAL_LINE[k] :
             k \in {Len(TRACE.ORIGINAL_LINE) + 1}
                   \cap (1..Len(first[1].TRACE.ORIGINAL_LINE))}

\* the loop has read all of EVENTS
EndOfEvents ==
    first /= <<>> =>
        /\ first[1].returned
        /\ Len(TRACE.ORIGINAL_LINE) = Len(first[1].TRACE.ORIGINAL_LINE)

\* parse_fields on any events, and once more on the same events
NextTwice ==
    \/ \E e \in NextEvent : parse_fields_tx(e)
    \/ \E e \in NextEvent : parse_fields_rx(e)
    \/ \E e \in NextEvent : parse_fields_raise(e)
    \/ EndOfEvents /\ parse_fields_return
    \/ parse_fields_again

SpecTwice == Init /\ [][NextTwice]_vars

\* the events of the lists given whole to parse_fields: TX and RX events,
\* an RX event without UniqueID, a line of another kind and the empty string
RowEvents ==
    {Event(m, t, 0, Plain) : m \in {"t", "r"}, t \in {Ts(0, 0), Ts(6000000, 0)}}
    \cup {Event("r", Ts(6000000, 0), 0, NoId), Event("x", Ts(0, 0), 0, Plain),
          Event("", Ts(0, 0), 0, NoId)}

\* parse_fields on a list EVENTS of at most MaxEvents events
InitRows ==
    /\ EVENTS \in UNION {[1..n -> RowEvents] : n \in 0..MaxEvents}
    /\ content = <<>> /\ rest = <<>> /\ event = <<>> /\ i = 0
    /\ pcSplit = "idle"
    /\ AddrIdle /\ ParseStart /\ BatchIdle

\* the line of this iteration of `for line in EVENTS`
Line == {EVENTS[k] : k \in {read + 1} \cap (1..Len(EVENTS))}

NextRows ==
    \/ \E e \in Line : parse_fields_tx(e)
    \/ \E e \in Line : parse_fields_rx(e)
    \/ \E e \in Line : parse_fields_other(e)
    \/ \E e \in Line : parse_fields_empty(e)
    \/ \E e \in Line : parse_fields_raise(e)
    \/ read = Len(EVENTS) /\ parse_fields_return
    \/ CalcMetrics

SpecRows == InitRows /\ [][NextRows]_vars

\* parse_events on any text
InitSplit ==
    /\ content \in Texts(SplitChars, MaxTextLen)
    /\ rest = content /\ event = <<>> /\ i = 0 /\ EVENTS = <<>>
    /\ pcSplit = "loop"
    /\ AddrIdle /\ ParseIdle /\ BatchIdle

NextSplit == parse_events_new \/ parse_events_append \/ parse_events_return

SpecSplit == InitSplit /\ [][NextSplit]_vars

\* the decoder on any address text, and the metrics of the traces of one
\* event that carries that text as its DestAddress
InitAddr ==
    /\ addr_in \in Texts(AddrChars, MaxAddrLen)
    /\ addr_out = Value(0) /\ pcAddr = "call"
    /\ SplitIdle /\ ParseStart /\ BatchIdle

ProbeTx ==
    /\ TRACE.ORIGINAL_LINE = <<>>
    /\ \E e \in ProbeEvents : parse_fields_tx(e)

ProbeRx ==
    /\ TRACE.ORIGINAL_LINE = <<>>
    /\ \E e \in ProbeEvents : parse_fields_rx(e)

NextAddr ==
    \/ Decode
    \/ pcAddr = "done" /\ ProbeTx
    \/ pcAddr = "done" /\ ProbeRx
    \/ pcAddr = "done" /\ parse_fields_return
    \/ pcAddr = "done" /\ CalcMetrics

SpecAddr == InitAddr /\ [][NextAddr]_vars

\* run_batch_simulation on every pair of lists of one or two values, every
\* repeat_count up to MaxRepeat and every setting of the three flags; each
\* run meets any of the Worlds
InitBatch ==
    /\ n_nodes_list \in {<<2>>, <<2, 3>>}
    /\ lambda_list \in {<<1>>, <<1, 4>>}
    /\ repeat_count \in 1..MaxRepeat
    /\ skip_failed \in BOOLEAN
    /\ skip_sim \in BOOLEAN
    /\ skip_print \in BOOLEAN
    /\ completed = 0 /\ calls = <<>> /\ csv = <<>> /\ returned = "none"
    /\ pcBatch = "loop"
    /\ SplitIdle /\ AddrIdle /\ ParseIdle

NextBatch ==
    \/ \E w \in Worlds : batch_success(w)
    \/ \E w \in Worlds : batch_skip(w)
    \/ \E w \in Worlds : batch_stop(w)
    \/ batch_return

SpecBatch == InitBatch /\ [][NextBatch]_vars

(***************************************************************************)
(* Properties                                                              *)
(***************************************************************************)
Rows == 1..Len(TRACE.TS)

Last(q) == q[Len(q)]

Reported == pc = "reported"

\* C1: sent_packets is the number of TX-mode records of the Trace; RX
\* records are not counted.
C1_SentPacketsCountsTx ==
    Reported =>
        out.sent_packets = Cardinality({k \in Rows : TRACE.MODE[k] = "TX"})

\* the trace of C2: a TX at node 0, ts = 0, 50 bytes, then a free RX at
\* node 1 with the same unique_id and a destination that decodes to 2
C2_TwoNodeTrace ==
    /\ Reported
    /\ TRACE.MODE = <<"TX", "RX">>
    /\ TRACE.NODE_ID = <<0, 1>>
    /\ TRACE.TS[1] = Zero
    /\ TRACE.PAYLOAD_SIZE[1] = 50
    /\ TRACE.bad[2] = 0
    /\ TRACE.UNIQUE_ID[1] = TRACE.UNIQUE_ID[2]
    /\ convert_string_to_int(TRACE.ORIGINAL_LINE[2].DestAddress) = Value(2)

\* C2: on that trace pdr is exactly 1.0, recv_packets is 1 and
\* total_collisions is 0; pdr is recv_packets / sent_packets and raises
\* ZeroDivisionError exactly when sent_packets is 0.
C2_PdrOfTwoNodeTrace ==
    /\ C2_TwoNodeTrace =>
          /\ out.pdr.fault = "none" /\ out.pdr.num = out.pdr.den
          /\ out.recv_packets = Value(1)
          /\ out.total_collisions = 0
    /\ Reported /\ out.recv_packets.fault = "none" =>
          /\ (out.pdr.fault = "ZeroDivisionError") <=> (out.sent_packets = 0)
          /\ out.sent_packets /= 0 =>
                /\ out.pdr.num = out.recv_packets.value
                /\ out.pdr.den = out.sent_packets

\* C3: no record has a unique_id that was not read from its own text: an
\* event without a UniqueID field, first or later, ends the parse.
C3_UniqueIdFromOwnText ==
    \A k \in 1..Len(TRACE.UNIQUE_ID) :
        /\ TRACE.ORIGINAL_LINE[k].UniqueID /= Absent
        /\ TRACE.UNIQUE_ID[k] = int(TRACE.ORIGINAL_LINE[k].UniqueID)

\* row k is an RX record without collision whose raw text has digits after
\* "DestAddress="
C4_Read(k) ==
    /\ TRACE.MODE[k] = "RX"
    /\ TRACE.bad[k] = 0
    /\ DigitRun(TRACE.ORIGINAL_LINE[k].DestAddress) /= <<>>

C4_Delivered(k) ==
    /\ C4_Read(k)
    /\ convert_string_to_int(DigitRun(TRACE.ORIGINAL_LINE[k].DestAddress))
           = Value(TRACE.NODE_ID[k] + 1)

\* C4 as amended: recv_packets is the number of distinct unique_id values of
\* the RX records without collision whose raw text has, after
\* "DestAddress=", a run of digits that the decoder maps to node_id + 1 (DA
\* is not read); TX and colliding RX records never count, an id counts once;
\* a run of more than 4 digits in such a record raises the decoder's fault.
C4_RecvPackets ==
    Reported =>
        out.recv_packets =
            IF \E k \in Rows :
                   /\ C4_Read(k)
                   /\ Len(DigitRun(TRACE.ORIGINAL_LINE[k].DestAddress))
                          > MAX_ADDR_LEN
            THEN Raise("ValueError")
            ELSE Value(Cardinality({TRACE.UNIQUE_ID[k] :
                                      k \in {r \in Rows : C4_Delivered(r)}}))

\* C4, witness: two deliveries of one unique_id, counted once
C4_Witness ==
    /\ Reported
    /\ Len(TRACE.TS) = 2
    /\ C4_Delivered(1) /\ C4_Delivered(2)
    /\ TRACE.UNIQUE_ID[1] = TRACE.UNIQUE_ID[2]
    /\ out.recv_packets = Value(1)

\* C4 as stated: the destination is the record's destination field (DA, or
\* else DestAddress), that is MAC_DST_ADDR.
C4_RecvPacketsByField ==
    Reported /\ out.recv_packets.fault = "none" =>
        out.recv_packets.value =
            Cardinality({TRACE.UNIQUE_ID[k] :
                k \in {r \in Rows :
                         /\ TRACE.MODE[r] = "RX"
                         /\ TRACE.bad[r] = 0
                         /\ convert_string_to_int(TRACE.MAC_DST_ADDR[r])
                                = Value(TRACE.NODE_ID[r] + 1)}})

\* the physical lines of a text
RECURSIVE Lines(_)
Lines(s) ==
    IF s = <<>> THEN <<>>
    ELSE <<FirstLine(s)>> \o Lines(SubSeq(s, Len(FirstLine(s)) + 1, Len(s)))

BeginsTR(line) == line[1] \in {"t", "r"}

\* C5 as stated: the number of events is the number of physical lines that
\* begin with 't' or 'r'.
C5_EventsAreTRLines ==
    pcSplit = "done" =>
        Len(EVENTS) = Cardinality({k \in 1..Len(Lines(content)) :
                                     BeginsTR(Lines(content)[k])})

\* C5 as amended: the number of events is 1 plus the number of physical
\* lines after the first that begin with 't' or 'r' (1 for the empty input).
C5_EventCount ==
    pcSplit = "done" =>
        Len(EVENTS) = 1 + Cardinality({k \in 2..Len(Lines(content)) :
                                         BeginsTR(Lines(content)[k])})

\* C5, witness: a first line that begins with another character, and a later
\* line that begins an event
C5_Witness ==
    /\ pcSplit = "done"
    /\ content /= <<>>
    /\ content[1] = "x"
    /\ Len(EVENTS) = 2

RECURSIVE Flatten(_)
Flatten(ss) == IF ss = <<>> THEN <<>> ELSE Head(ss) \o Flatten(Tail(ss))

RECURSIVE WithoutNL(_)
WithoutNL(s) ==
    IF s = <<>> THEN <<>>
    ELSE IF Head(s) = NL THEN WithoutNL(Tail(s))
    ELSE <<Head(s)>> \o WithoutNL(Tail(s))

\* C6: parse_events loses and reorders nothing: the events, concatenated in
\* order, are the text without its line terminators, also when the last
\* line has no trailing newline.
C6_NothingLost ==
    pcSplit = "done" => Flatten(EVENTS) = WithoutNL(content)

RECURSIVE Pow10(_)
Pow10(n) == IF n = 0 THEN 1 ELSE 10 * Pow10(n - 1)

C7_Input == pcAddr = "done" /\ Len(addr_in) \in 1..MAX_ADDR_LEN /\ isdigit(addr_in)

\* C7 as stated: a leading '0' is removed and the rest read as decimal;
\* otherwise first_digit * 255 + the decimal value of the remaining digits,
\* for every length 1 to 4.
C7_DecoderAllLengths ==
    C7_Input =>
        addr_out = Value(IF addr_in[1] = "0" THEN int(Tail(addr_in))
                         ELSE DigitVal(addr_in[1]) * 255 + int(Tail(addr_in)))

\* C7 as amended: with a leading '0' the result is the decimal value of the
\* string; a single digit gives that digit; 2 to 4 digits that do not begin
\* with '0' give first_digit * 255 + the decimal value of the other digits.
C7_Decoder ==
    C7_Input =>
        /\ addr_out.fault = "none"
        /\ addr_in[1] = "0" => addr_out.value = int(addr_in)
        /\ Len(addr_in) = 1 => addr_out.value = DigitVal(addr_in[1])
        /\ addr_in[1] /= "0" /\ Len(addr_in) > 1 =>
              addr_out.value = DigitVal(addr_in[1]) * 255 + int(addr_in)
                  - DigitVal(addr_in[1]) * Pow10(Len(addr_in) - 1)

\* C7, witness: "999" gives 2394
C7_Witness ==
    pcAddr = "done" /\ addr_in = <<"9", "9", "9">> /\ addr_out = Value(2394)

\* an address the decoder must refuse
C8_Malformed(s) == Len(s) \notin 1..MAX_ADDR_LEN \/ ~isdigit(s)

C8_DecoderRefuses ==
    pcAddr = "done" =>
        /\ (addr_out.fault = "ValueError") <=> C8_Malformed(addr_in)
        /\ (addr_out.fault = "none") <=> ~C8_Malformed(addr_in)

C8_AllRaise ==
    /\ out.recv_packets.fault = "ValueError"
    /\ out.energy_per_bit.fault = "ValueError"
    /\ out.pdr.fault = "ValueError"

C8_NoneRaises ==
    /\ out.recv_packets.fault = "none"
    /\ out.energy_per_bit.fault = "none"
    /\ out.pdr.fault = "none"

\* the trace is one RX record without collision that carries addr_in
C8_FreeRxRecord ==
    /\ Reported
    /\ TRACE.MODE = <<"RX">>
    /\ TRACE.bad = <<0>>
    /\ TRACE.ORIGINAL_LINE[1].DestAddress = addr_in

\* C8 as stated: the decoder raises for every length outside 1..4 and every
\* non-digit character, and the fault leaves recv_packets, energy_per_bit
\* and pdr when a record carries such a destination address.
C8_FaultAlwaysPropagates ==
    /\ C8_DecoderRefuses
    /\ C8_FreeRxRecord /\ addr_in /= <<>> /\ C8_Malformed(addr_in) => C8_AllRaise

\* C8 as amended: the decoder raises exactly for those inputs; recv_packets,
\* energy_per_bit and pdr raise exactly when an RX record without collision
\* has more than 4 digits right after "DestAddress="; an address with a
\* non-digit character never makes them raise.
C8_FaultPropagation ==
    /\ C8_DecoderRefuses
    /\ Reported /\ Len(TRACE.TS) = 1 =>
          IF C8_FreeRxRecord /\ Len(DigitRun(addr_in)) > MAX_ADDR_LEN
          THEN C8_AllRaise ELSE C8_NoneRaises

\* C8, witness: a free RX record with five digits, and the fault
C8_Witness ==
    /\ C8_FreeRxRecord
    /\ pcAddr = "done"
    /\ addr_in = <<"0", "0", "0", "0", "1">>
    /\ addr_out.fault = "ValueError"
    /\ C8_AllRaise

\* C9: two TX events at one node, the second inside the busy interval
\* [ts1, ts1 + air_time) of the first, air_time in nanoseconds: exactly the
\* second record is flagged and the node's collision_count is 1.
C9_OverlappingTxCollide ==
    /\ Len(TRACE.bad) = 2
    /\ TRACE.MODE = <<"TX", "TX">>
    /\ TRACE.NODE_ID[1] = TRACE.NODE_ID[2]
    /\ NumGeq(TRACE.TS[2], TRACE.TS[1])
    /\ NumLt(TRACE.TS[2],
             NumAdd(TRACE.TS[1], AirTimeNs(TRACE.PAYLOAD_SIZE[1])))
    => /\ TRACE.bad = <<0, 1>>
       /\ NODE_INFO[TRACE.NODE_ID[1]].COLLISION_COUNT = 1

\* the three energies of node n do not decrease in a step
C10_NodeKeeps(n) ==
    /\ NumGeq(Node(NODE_INFO', n).RX_ENERGY, Node(NODE_INFO, n).RX_ENERGY)
    /\ NumGeq(Node(NODE_INFO', n).TX_ENERGY, Node(NODE_INFO, n).TX_ENERGY)
    /\ NumGeq(Node(NODE_INFO', n).IDLE_ENERGY, Node(NODE_INFO, n).IDLE_ENERGY)

\* C10: after every event each node's rx_energy, tx_energy and idle_energy
\* are at least what they were before it, and so is energy_consumption, for
\* any order of the timestamps.
C10_EnergyNeverDecreases ==
    [][/\ \A n \in Nodes : C10_NodeKeeps(n)
       /\ NumGeq(calc_energy_consumption(NODE_INFO'),
                 calc_energy_consumption(NODE_INFO))]_vars

\* C10, witness: two events at one node, the second with the earlier
\* timestamp, and energy spent
C10_Witness ==
    /\ Len(TRACE.bad) = 2
    /\ TRACE.NODE_ID[1] = TRACE.NODE_ID[2]
    /\ NumLt(TRACE.TS[2], TRACE.TS[1])
    /\ TRACE.bad[1] = 0
    /\ NumGeq(NODE_INFO[TRACE.NODE_ID[1]].IDLE_ENERGY, Num(0, 1))

\* C11: a trace that names a node above the preallocated ones parses without
\* fault, and rx_nocol_calls returns the sum of PROCESSED_RX_COUNT over every
\* node of NODE_INFO without fault, as energy_consumption and
\* total_collisions return their sums.
C11_Far == \E n \in DOMAIN NODE_INFO : n >= NODE_PREALLOC

C11_SumsOverAllNodes ==
    Reported /\ C11_Far =>
        /\ fault = "none"
        /\ out.total_collisions =
               SumOver(NODE_INFO, DOMAIN NODE_INFO, "COLLISION_COUNT")
        /\ out.rx_nocol_calls =
               Value(SumOver(NODE_INFO, DOMAIN NODE_INFO, "PROCESSED_RX_COUNT"))

\* C12: instantaneous_throughput counts only the RX records whose
\* mac_dst_addr is node_id + 1, each unique_id once: the packets of the
\* closed windows and of the open one add up to the number of such
\* unique_ids, and TX records add nothing.
RECURSIVE SeqSum(_)
SeqSum(q) == IF q = <<>> THEN 0 ELSE Head(q) + SeqSum(Tail(q))

C12_Received ==
    {TRACE.UNIQUE_ID[k] :
        k \in {r \in Rows : TRACE.MODE[r] = "RX" /\ ForNode(TRACE, r)}}

C12_EachIdCountedOnce ==
    Reported /\ out.instantaneous_throughput.fault = "none" =>
        SeqSum(out.instantaneous_throughput.counts)
          + out.instantaneous_throughput.num_recv_packets
        = Cardinality(C12_Received)

\* C13: the three sequences of instantaneous_throughput have the same
\* length, and the k-th moving average is the arithmetic mean of the first
\* k throughput samples.
RECURSIVE FracSum(_, _)
FracSum(q, k) == IF k = 0 THEN Frac(0, 1) ELSE FracAdd(FracSum(q, k - 1), q[k])

C13_MovingAverageIsMean ==
    Reported =>
        LET r == out.instantaneous_throughput
        IN  /\ Len(r.timestamps) = Len(r.throughputs)
            /\ Len(r.moving_average) = Len(r.throughputs)
            /\ \A k \in 1..Len(r.throughputs) :
                   r.moving_average[k] = FracDiv(FracSum(r.throughputs, k), k)

\* two windows have closed, with different samples
C13_Witness ==
    /\ Reported
    /\ Len(out.instantaneous_throughput.throughputs) >= 2
    /\ out.instantaneous_throughput.throughputs[1]
         /= out.instantaneous_throughput.throughputs[2]

\* C14: average_delay takes, for each unique_id, the first RX record whose
\* mac_dst_addr is node_id + 1 and one sample rx_ts - tx_ts for each TX
\* record of that unique_id; TX records are never the receiving side, and
\* with no samples the result is NaN.
C14_Receptions ==
    {k \in Rows :
        /\ TRACE.MODE[k] = "RX" /\ ForNode(TRACE, k)
        /\ \A r \in 1..(k - 1) :
               ~(/\ TRACE.MODE[r] = "RX" /\ ForNode(TRACE, r)
                 /\ TRACE.UNIQUE_ID[r] = TRACE.UNIQUE_ID[k])}

RECURSIVE C14_Samples(_)
C14_Samples(ks) ==
    IF ks = {} THEN [sum |-> Zero, n |-> 0]
    ELSE LET k == CHOOSE x \in ks : TRUE
             others == C14_Samples(ks \ {k})
         IN  [sum |-> NumAdd(others.sum,
                             DelaySum(TRACE, k, Senders(TRACE, k))),
              n   |-> others.n + Cardinality(Senders(TRACE, k))]

C14_DelayOverReceptions ==
    Reported /\ out.average_delay.fault = "none" =>
        /\ out.average_delay.n = C14_Samples(C14_Receptions).n
        /\ out.average_delay.sum = C14_Samples(C14_Receptions).sum
        /\ out.average_delay.nan = (C14_Samples(C14_Receptions).n = 0)

\* C15: energy_per_bit returns 0.0 without fault when recv_packets is 0,
\* and otherwise energy_consumption / (recv_packets * PACKET_SIZE * 8); it
\* never raises a division by zero.
C15_EnergyPerBit ==
    Reported =>
        /\ out.energy_per_bit.fault /= "ZeroDivisionError"
        /\ out.recv_packets = Value(0) =>
               out.energy_per_bit = [fault |-> "none", num |-> Zero, den |-> 1]
        /\ out.recv_packets.fault = "none" /\ out.recv_packets.value > 0 =>
               out.energy_per_bit =
                   [fault |-> "none", num |-> out.energy_consumption,
                    den |-> out.recv_packets.value * PACKET_SIZE * 8]

\* energy was spent and nothing was received
C15_Witness ==
    /\ Reported
    /\ out.recv_packets = Value(0)
    /\ out.energy_consumption /= Zero
    /\ out.energy_per_bit = [fault |-> "none", num |-> Zero, den |-> 1]

\* C16: in an event that carries a unique_id any of the optional fields may
\* be absent, and each absent field takes its default: packet_type
\* "UNKNOWN", payload_size 50, tx_duration 0.0, direction "UNKNOWN",
\* num_forwards 0, error "False", mac_src_addr and mac_dst_addr "000".
C16_WellFormed(e) ==
    /\ e.Size = Absent \/ isdigit(e.Size)
    /\ e.NumForwards = Absent \/ isdigit(e.NumForwards)

C16_Defaults ==
    \A k \in 1..Len(TRACE.ORIGINAL_LINE) :
        LET e == TRACE.ORIGINAL_LINE[k]
        IN  e.UniqueID /= Absent /\ isdigit(e.UniqueID) /\ C16_WellFormed(e) =>
              /\ k <= Len(TRACE.bad)
              /\ e.PacketType = Absent => TRACE.PTYPE[k] = UNKNOWN
              /\ e.Size = Absent => TRACE.PAYLOAD_SIZE[k] = DEFAULT_PAYLOAD
              /\ e.TxTime = Absent => TRACE.TX_TIME[k] = 0
              /\ e.Direction = Absent => TRACE.DIRECTION[k] = UNKNOWN
              /\ e.NumForwards = Absent => TRACE.NUM_FORWARDS[k] = 0
              /\ e.Error = Absent => TRACE.ERROR[k] = False
              /\ e.SA = Absent => TRACE.MAC_SRC_ADDR[k] = ADDR_000
              /\ e.DA = Absent /\ (e.mode = "t" \/ e.DestAddress = Absent) =>
                     TRACE.MAC_DST_ADDR[k] = ADDR_000

\* an event with nothing but its unique_id has been read
C16_Witness ==
    /\ Len(TRACE.bad) = 1
    /\ \A c \in {"PacketType", "Size", "TxTime", "Direction", "NumForwards",
                  "Error", "SA", "DA", "DestAddress"} :
           TRACE.ORIGINAL_LINE[1][c] = Absent
    /\ TRACE.PAYLOAD_SIZE = <<DEFAULT_PAYLOAD>>

\* C17: a value that is not a number in a numeric field (TxTime, Size,
\* NumForwards) never aborts the parse: the field takes its default.
C17_Malformed(e) ==
    \/ e.Size /= Absent /\ ~isdigit(e.Size)
    \/ e.NumForwards /= Absent /\ ~isdigit(e.NumForwards)
    \/ e.TxTime /= Absent /\ ~isdigit(StripTxTime(e.TxTime))

C17_MalformedNeverAborts ==
    \A k \in 1..Len(TRACE.ORIGINAL_LINE) :
        LET e == TRACE.ORIGINAL_LINE[k]
        IN  C17_Malformed(e) =>
              /\ fault = "none"
              /\ k <= Len(TRACE.bad)
              /\ e.Size /= Absent /\ ~isdigit(e.Size) =>
                     TRACE.PAYLOAD_SIZE[k] = DEFAULT_PAYLOAD
              /\ e.NumForwards /= Absent /\ ~isdigit(e.NumForwards) =>
                     TRACE.NUM_FORWARDS[k] = 0
              /\ e.TxTime /= Absent /\ ~isdigit(StripTxTime(e.TxTime)) =>
                     TRACE.TX_TIME[k] = 0

\* C18: parsing is a function of the input alone: a second parse_fields on
\* the same events ends as the first did, with an equal TRACE and an equal
\* NODE_INFO, and it starts from node state that has nothing of the first.
C18_SecondRunEnded == first /= <<>> /\ pc \in {"done", "fault"}

C19_MetricsReadOnly ==
    [][pc' = "reported" =>
          /\ TRACE' = TRACE
          /\ NODE_INFO' = NODE_INFO
          /\ pc = "reported" => out' = out]_vars

\* the metrics of a trace with a collision and a delay sample are out
C19_Witness ==
    /\ Reported
    /\ \E k \in Rows : TRACE.bad[k] = 1
    /\ out.average_delay.n > 0
    /\ out.sent_packets = Len(TRACE.TS)

\* C20: a TX event at ts on a node with ts >= busy_until does not collide:
\* the flag is false, idle_energy grows by (ts - busy_until) * IDLE_POWER,
\* tx_energy by air_time * (TX_POWER + IDLE_POWER), busy_until becomes
\* ts + air_time in nanoseconds, and the two counters stay.
C20_FreeTxUpdate ==
    [][Len(TRACE'.bad) = Len(TRACE.bad) + 1 /\ Last(TRACE'.MODE) = "TX" =>
          LET ts   == Last(TRACE'.TS)
              size == Last(TRACE'.PAYLOAD_SIZE)
              old  == Node(NODE_INFO, Last(TRACE'.NODE_ID))
              new  == Node(NODE_INFO', Last(TRACE'.NODE_ID))
          IN  NumGeq(ts, old.LAST_TS) =>
                /\ Last(TRACE'.bad) = 0
                /\ new.IDLE_ENERGY = NumAdd(old.IDLE_ENERGY,
                       NumScale(NumSub(ts, old.LAST_TS), IDLE_POWER))
                /\ new.TX_ENERGY = NumAdd(old.TX_ENERGY,
                       AirEnergy(size, TX_POWER + IDLE_POWER))
                /\ new.LAST_TS = NumAdd(ts, AirTimeNs(size))
                /\ new.COLLISION_COUNT = old.COLLISION_COUNT
                /\ new.PROCESSED_RX_COUNT = old.PROCESSED_RX_COUNT]_vars

\* the step has appended a row of the given mode
Appended(mode) ==
    Len(TRACE'.bad) = Len(TRACE.bad) + 1 /\ Last(TRACE'.MODE) = mode

\* the node of the appended row before and after the step
NodeBefore == Node(NODE_INFO, Last(TRACE'.NODE_ID))

NodeAfter == Node(NODE_INFO', Last(TRACE'.NODE_ID))

\* C21: a TX event at ts on a node with ts < busy_until is a collision: the
\* flag is true, collision_count grows by 1, tx_energy still grows by
\* air_time * (TX_POWER + IDLE_POWER), and busy_until, idle_energy,
\* rx_energy and processed_rx_count stay.
C21_CollidingTxUpdate ==
    [][Appended("TX") /\ NumLt(Last(TRACE'.TS), NodeBefore.LAST_TS) =>
          /\ Last(TRACE'.bad) = 1
          /\ NodeAfter.COLLISION_COUNT = NodeBefore.COLLISION_COUNT + 1
          /\ NodeAfter.TX_ENERGY =
                 NumAdd(NodeBefore.TX_ENERGY,
                        AirEnergy(Last(TRACE'.PAYLOAD_SIZE),
                                  TX_POWER + IDLE_POWER))
          /\ NodeAfter.LAST_TS = NodeBefore.LAST_TS
          /\ NodeAfter.IDLE_ENERGY = NodeBefore.IDLE_ENERGY
          /\ NodeAfter.RX_ENERGY = NodeBefore.RX_ENERGY
          /\ NodeAfter.PROCESSED_RX_COUNT = NodeBefore.PROCESSED_RX_COUNT]_vars

\* a TX record is flagged
C21_Witness ==
    \E k \in 1..Len(TRACE.bad) : TRACE.MODE[k] = "TX" /\ TRACE.bad[k] = 1

\* C22: an RX event at ts does not collide exactly when ts - air_time, the
\* air time in nanoseconds, is >= busy_until; then processed_rx_count grows
\* by 1, idle_energy by (ts - busy_until) * IDLE_POWER, rx_energy by
\* air_time * RX_POWER, busy_until becomes ts and the flag is false.
C22_RxFreeFromStart ==
    [][Appended("RX") =>
          LET ts   == Last(TRACE'.TS)
              size == Last(TRACE'.PAYLOAD_SIZE)
              free == NumGeq(NumSub(ts, AirTimeNs(size)), NodeBefore.LAST_TS)
          IN  /\ free = (Last(TRACE'.bad) = 0)
              /\ free =>
                   /\ NodeAfter.PROCESSED_RX_COUNT =
                          NodeBefore.PROCESSED_RX_COUNT + 1
                   /\ NodeAfter.IDLE_ENERGY =
                          NumAdd(NodeBefore.IDLE_ENERGY,
                                 NumScale(NumSub(ts, NodeBefore.LAST_TS),
                                          IDLE_POWER))
                   /\ NodeAfter.RX_ENERGY =
                          NumAdd(NodeBefore.RX_ENERGY,
                                 AirEnergy(size, RX_POWER))
                   /\ NodeAfter.LAST_TS = ts]_vars

\* C23: an RX event whose start ts - air_time, the air time in nanoseconds,
\* is before busy_until is a collision: the flag is true, collision_count
\* grows by 1, and busy_until, processed_rx_count and the three energies
\* stay.
C23_CollidingRxUpdate ==
    [][Appended("RX")
         /\ NumLt(NumSub(Last(TRACE'.TS), AirTimeNs(Last(TRACE'.PAYLOAD_SIZE))),
                  NodeBefore.LAST_TS) =>
          /\ Last(TRACE'.bad) = 1
          /\ NodeAfter =
                 [NodeBefore EXCEPT !.COLLISION_COUNT = @ + 1]]_vars

\* C24: for every node, collision_count is the number of its flagged
\* records and processed_rx_count the number of its RX records that are not
\* flagged; total_collisions is the number of flagged records.
C24_Flagged(n) ==
    {k \in 1..Len(TRACE.bad) : TRACE.NODE_ID[k] = n /\ TRACE.bad[k] = 1}

C24_Processed(n) ==
    {k \in 1..Len(TRACE.bad) :
        TRACE.NODE_ID[k] = n /\ TRACE.MODE[k] = "RX" /\ TRACE.bad[k] = 0}

C24_CountersMatchFlags ==
    /\ \A n \in DOMAIN NODE_INFO \cup {TRACE.NODE_ID[k] : k \in 1..Len(TRACE.bad)} :
           /\ Node(NODE_INFO, n).COLLISION_COUNT = Cardinality(C24_Flagged(n))
           /\ Node(NODE_INFO, n).PROCESSED_RX_COUNT =
                  Cardinality(C24_Processed(n))
    /\ Reported =>
           out.total_collisions =
               Cardinality({k \in 1..Len(TRACE.bad) : TRACE.bad[k] = 1})

\* two nodes have a flagged record each, and the total is out
C24_Witness ==
    /\ Reported
    /\ out.total_collisions = 2
    /\ \A n \in Nodes : Cardinality(C24_Flagged(n)) = 1

\* C25: after a successful parse all columns of the Trace have the same
\* length, the number of events that begin with "t" or "r", and tx_calls +
\* rx_calls is that length.
C25_Records == {k \in 1..Len(EVENTS) : EVENTS[k].mode \in {"t", "r"}}

C25_ColumnsAligned ==
    pc \in {"done", "reported"} =>
        /\ \A c \in Columns : Len(TRACE[c]) = Cardinality(C25_Records)
        /\ Reported =>
               out.tx_calls + out.rx_calls = Cardinality(C25_Records)

\* a list with a line of another kind and a TX or RX event has been parsed
C25_Witness ==
    /\ Reported
    /\ Cardinality(C25_Records) = 1
    /\ Len(EVENTS) = 2
    /\ TRACE.bad /= <<>>

\* C26: busy_until (LAST_TS) of a node never decreases, whatever the order
\* of the timestamps; an event whose timestamp is before busy_until is
\* flagged and leaves busy_until where it is.
C26_BusyUntilNeverDecreases ==
    [][/\ \A n \in DOMAIN NODE_INFO' :
              NumGeq(NODE_INFO'[n].LAST_TS, Node(NODE_INFO, n).LAST_TS)
       /\ (Appended("TX") \/ Appended("RX"))
            /\ NumLt(Last(TRACE'.TS), NodeBefore.LAST_TS) =>
              /\ Last(TRACE'.bad) = 1
              /\ NodeAfter.LAST_TS = NodeBefore.LAST_TS]_vars

\* an event earlier than the one before it at its node is flagged
C26_Witness ==
    \E k \in 2..Len(TRACE.bad) :
        /\ TRACE.NODE_ID[k] = TRACE.NODE_ID[k - 1]
        /\ NumLt(TRACE.TS[k], TRACE.TS[k - 1])
        /\ TRACE.bad[k - 1] = 0 /\ TRACE.bad[k] = 1
        /\ Node(NODE_INFO, TRACE.NODE_ID[k]).LAST_TS /= Zero

\* C27: every window instantaneous_throughput emits is at least 10 seconds
\* long, so no sample has a zero or negative divisor; the window-end
\* timestamps are at least 10 seconds apart; after an emission the window
\* starts again at that record's timestamp with count 1.
C27_Start(k) ==
    IF k = 1 THEN InstStart(TRACE).start_ts
    ELSE out.instantaneous_throughput.timestamps[k - 1]

C27_Elapsed(k) ==
    NumSub(out.instantaneous_throughput.timestamps[k], C27_Start(k))

C27_WindowsAtLeastTenSeconds ==
    Reported /\ out.instantaneous_throughput.fault = "none" =>
        LET r == out.instantaneous_throughput
        IN  /\ \A k \in 1..Len(r.throughputs) :
                   /\ NumGeq(C27_Elapsed(k), Seconds(WINDOW_SECONDS))
                   /\ r.counts[k] >= 1
                   /\ r.throughputs[k] =
                          Frac(r.counts[k] * PACKET_SIZE * 8 * TicksPerNs,
                               C27_Elapsed(k).hi)
            /\ r.throughputs /= <<>> => r.num_recv_packets >= 1
            /\ r.throughputs /= <<>>
                 /\ Len(r.throughputs) = Len(TRACE.TS) - 1 =>
                   /\ r.num_recv_packets = 1
                   /\ \A k \in 1..Len(r.counts) : r.counts[k] = 1

\* two windows in a row have been emitted
C27_Witness ==
    /\ Reported
    /\ Len(TRACE.TS) = 3
    /\ Len(out.instantaneous_throughput.throughputs) = 2
(***************************************************************************)
(* run_batch_simulation                                                    *)
(***************************************************************************)
\* the place of a value in a list of distinct values
Pos(list, v) == CHOOSE k \in 1..Len(list) : list[k] = v

\* b is the run that follows a: the next repeat of the same pair, or the
\* first repeat of the next pair, the lambda values changing fastest
Follows(a, b) ==
    IF a.rng_seed < repeat_count
    THEN /\ b.n_nodes = a.n_nodes /\ b.lambda_val = a.lambda_val
         /\ b.rng_seed = a.rng_seed + 1
    ELSE /\ b.rng_seed = 1
         /\ IF Pos(lambda_list, a.lambda_val) < Len(lambda_list)
            THEN /\ b.n_nodes = a.n_nodes
                 /\ Pos(lambda_list, b.lambda_val)
                        = Pos(lambda_list, a.lambda_val) + 1
            ELSE /\ Pos(n_nodes_list, b.n_nodes)
                        = Pos(n_nodes_list, a.n_nodes) + 1
                 /\ b.lambda_val = lambda_list[1]

C28_ProductOrder ==
    /\ calls /= <<>> =>
           /\ calls[1].n_nodes = n_nodes_list[1]
           /\ calls[1].lambda_val = lambda_list[1]
           /\ calls[1].rng_seed = 1
    /\ \A k \in 1..(Len(calls) - 1) : Follows(calls[k], calls[k + 1])

\* row k is the row of run k, its two metrics empty iff the run failed
C28_RowOfRun(k) ==
    /\ csv[k].n_nodes = calls[k].n_nodes
    /\ csv[k].lambda = calls[k].lambda_val
    /\ csv[k].repeat = calls[k].rng_seed
    /\ calls[k].ok => csv[k].RxPackets /= <<>> /\ csv[k].TxCount /= <<>>
    /\ ~calls[k].ok => csv[k].RxPackets = <<>> /\ csv[k].TxCount = <<>>

\* C28: run_batch_simulation runs the (n_nodes, lambda) pairs in product
\* order, each with repeat = 1..repeat_count and the repeat as seed, and
\* writes one row per run, in order.  With skip_failed a failed run gets a
\* row with empty RxPackets and TxCount, every combination is run and True
\* is returned.  Without skip_failed the first failed run writes no row,
\* is the last run, and False is returned; with no failed run every
\* combination is run and True is returned.
C28_BatchRows ==
    /\ C28_ProductOrder
    /\ Len(csv) <= Len(calls)
    /\ \A k \in 1..Len(csv) : C28_RowOfRun(k)
    /\ pcBatch = "loop" => Len(csv) = Len(calls)
    /\ (pcBatch = "done" /\ skip_failed) =>
           /\ returned = "True"
           /\ Len(calls) = total_combinations
           /\ Len(csv) = Len(calls)
    /\ ~skip_failed => \A k \in 1..(Len(calls) - 1) : calls[k].ok
    /\ (pcBatch = "done" /\ ~skip_failed) =>
           IF \E k \in 1..Len(calls) : ~calls[k].ok
           THEN /\ returned = "False"
                /\ Len(csv) = Len(calls) - 1
           ELSE /\ returned = "True"
                /\ Len(calls) = total_combinations
                /\ Len(csv) = Len(calls)

\* a whole batch over two node counts, two lambda values and two repeats,
\* with skip_failed, in which a run failed and a later run succeeded
C28_Witness ==
    /\ pcBatch = "done" /\ skip_failed
    /\ Len(n_nodes_list) = 2 /\ Len(lambda_list) = 2 /\ repeat_count = 2
    /\ \E j, k \in 1..Len(calls) : j < k /\ ~calls[j].ok /\ calls[k].ok

====
